---- MODULE Spec2Model ----
(***************************************************************************)
(* Model of the Gofig hamper builder (src/main.py): the budget-fill        *)
(* engine create_hamper, the replacement engine                            *)
(* get_replacement_suggestions and the session-held hamper the dashboard   *)
(* edits.                                                                  *)
(*                                                                         *)
(* Prices and budgets are whole rupees.  budget * 1.02 and budget * 0.99   *)
(* are compared after multiplying both sides by 100, which is exact for    *)
(* whole amounts.  An expiry date is the number of days from today.        *)
(***************************************************************************)
EXTENDS Integers, Sequences, FiniteSets, TLC

\* ---- bounds ----
MaxRows == 2
MaxLines == 3

\* ---- program constants ----
MaxQty == 20
max_iterations == 100
MaxSuggestions == 7

\* ---- inventory universe ----
Row(c, n, m, a, h, s, b, d) ==
    [category |-> c, name |-> n, mrp |-> m, avail |-> a,
     holding |-> h, status |-> s, brand |-> b, days |-> d]

Catalog ==
    { Row("c1", "a", 100, 5,  "h1", "ok",  "x", 40),
      Row("c1", "b", 51,  1,  "h1", "ok",  "x", 40),
      Row("c1", "a", 3,   21, "h1", "ok",  "y", 50),
      Row("c2", "a", 7,   3,  "h1", "ok",  "x", 45),
      Row("c1", "b", 0,   2,  "h2", "ok",  "x", 40),
      Row("c2", "b", 20,  4,  "h1", "ok",  "x", 400),
      Row("c1", "c", 30,  0,  "h1", "ok",  "x", 40),
      Row("c1", "c", 60,  2,  "h1", "old", "x", 40),
      Row("c2", "b", 9,   6,  "h1", "ok",  "x", 60),
      Row("c1", "d", 2,   4,  "h1", "ok",  "y", 60),
      Row("c2", "c", 13,  21, "h1", "ok",  "x", 60) }

Budgets == {10, 50, 100, 250}

Args(cs, hs, ss, bs, lo, hi) ==
    [selected_categories |-> cs, selected_inventory |-> hs,
     selected_status |-> ss, selected_brands |-> bs,
     min_days |-> lo, max_days |-> hi]

FilterArgs ==
    { Args({"c1", "c2"}, {"h1", "h2"}, {"ok", "old"}, {"x", "y"}, 0, 365),
      Args({"c1", "c2"}, {"h1"}, {"ok"}, {"x", "y"}, 45, 730) }

\* six one-rupee items: the orderings leave slack that only bumps close
Penny == [i \in 1..6 |->
            Row("c1", <<"p1", "p2", "p3", "p4", "p5", "p6">>[i], 1, 20,
                "h1", "ok", "x", 60)]

\* free items, more units than the refinement loop has iterations
Free == [i \in 1..6 |->
            Row("c2", <<"f1", "f2", "f3", "f4", "f5", "f6">>[i], 0,
                IF i = 6 THEN 2 ELSE 25, "h1", "ok", "x", 60)]

Scenarios == {Penny, Free}

Inventories == UNION { [1..n -> Catalog] : n \in 0..MaxRows } \cup Scenarios

\* the shelf the replacement engine is asked about: any selection of its rows
Shelf ==
    << Row("c1", "n1", 10, 3, "h1", "ok",  "x", 60),
       Row("c1", "n2", 10, 1, "h1", "ok",  "y", 60),
       Row("c1", "n3", 4,  2, "h1", "ok",  "x", 50),
       Row("c1", "n4", 25, 5, "h1", "ok",  "x", 70),
       Row("c1", "n5", 8,  9, "h1", "ok",  "x", 60),
       Row("c1", "n6", 30, 1, "h1", "ok",  "x", 60),
       Row("c1", "n7", 2,  4, "h1", "ok",  "x", 90),
       Row("c1", "n8", 12, 2, "h1", "ok",  "x", 60),
       Row("c1", "n9", 1,  6, "h1", "ok",  "x", 60),
       Row("c1", "n1", 3,  2, "h2", "old", "x", 30),
       Row("c2", "n4", 6,  2, "h1", "ok",  "x", 60) >>

Selected(S) ==
    LET F[i \in 0..Len(Shelf)] ==
            IF i = 0 THEN <<>>
            ELSE IF i \in S THEN Append(F[i - 1], Shelf[i]) ELSE F[i - 1]
    IN  F[Len(Shelf)]

Shelves == { Selected(S) : S \in SUBSET (1..Len(Shelf)) }

\* the inventory and the budgets of a dashboard session
UIInventories ==
    { << Row("c1", "a", 7, 3, "h1", "ok", "x", 60),
         Row("c1", "b", 5, 2, "h1", "ok", "x", 60),
         Row("c2", "a", 4, 1, "h1", "ok", "x", 60) >>,
      Free }

UIBudgets == {10, 20}

\* ---- state ----
\* data, budget, args: the inventory frame and the sidebar inputs
\* pc .. small_items: the locals of create_hamper and its position
\* results: the temp_hamper, temp_total and temp_used each ordering ended
\*          with, in the order of the strategies list
\* session_hamper, replacements: st.session_state
\* s_pc .. suggestions: the locals of get_replacement_suggestions
VARIABLES data, budget, args, pc,
          df_filtered, items_pool, strategy, sorted_items, pos,
          temp_hamper, temp_total, temp_used,
          best_hamper, best_total, used_items,
          hamper, total_cost, iteration, improved, small_items, results,
          session_hamper, replacements,
          s_pc, s_idx, s_category, s_current, s_rest, s_sorted, suggestions

envVars == <<data, budget, args>>

fillVars == <<pc, df_filtered, items_pool, strategy, sorted_items, pos,
              temp_hamper, temp_total, temp_used, best_hamper, best_total,
              used_items, hamper, total_cost, iteration, improved, small_items,
              results>>

sessionVars == <<session_hamper, replacements>>

suggestVars == <<s_pc, s_idx, s_category, s_current, s_rest, s_sorted, suggestions>>

uiVars == <<sessionVars, suggestVars>>

vars == <<envVars, fillVars, uiVars>>

\* ---- helpers ----
Min(a, b) == IF a <= b THEN a ELSE b

Key(item) == <<item.category, item.name>>

LineKey(line) == <<line[1], line[2]>>

is_within_expiry(days_until_expiry, min_days, max_days) ==
    min_days <= days_until_expiry /\ days_until_expiry <= max_days

FilterRow(r, a) ==
    /\ r.category \in a.selected_categories
    /\ r.holding \in a.selected_inventory
    /\ r.status \in a.selected_status
    /\ r.brand \in a.selected_brands
    /\ is_within_expiry(r.days, a.min_days, a.max_days)

RECURSIVE SelectRows(_, _)
SelectRows(rows, a) ==
    IF rows = <<>> THEN <<>>
    ELSE LET rest == SelectRows(Tail(rows), a)
         IN  IF FilterRow(Head(rows), a) THEN <<Head(rows)>> \o rest ELSE rest

\* drop_duplicates(subset=['Item Name', 'Category']) keeps the first row
drop_duplicates(rows) ==
    LET keep == { i \in 1..Len(rows) :
                    \A j \in 1..(i - 1) :
                        <<rows[j].category, rows[j].name>> #
                        <<rows[i].category, rows[i].name>> }
        F[i \in 0..Len(rows)] ==
            IF i = 0 THEN <<>>
            ELSE IF i \in keep THEN Append(F[i - 1], rows[i]) ELSE F[i - 1]
    IN  F[Len(rows)]

\* mutant: the cap of 20 units is lost
RowEntriesUncapped(row) ==
    [qty \in 1..row.avail |->
        [category |-> row.category, name |-> row.name, mrp |-> row.mrp,
         qty |-> qty, total_cost |-> row.mrp * qty,
         available_units |-> row.avail, cost_per_unit |-> row.mrp]]

RowEntries(row) ==
    LET max_available == Min(row.avail, MaxQty)
    IN  [qty \in 1..max_available |->
            [category |-> row.category, name |-> row.name, mrp |-> row.mrp,
             qty |-> qty, total_cost |-> row.mrp * qty,
             available_units |-> max_available, cost_per_unit |-> row.mrp]]

BuildPool(rows) ==
    LET F[i \in 0..Len(rows)] ==
            IF i = 0 THEN <<>> ELSE F[i - 1] \o RowEntries(rows[i])
    IN  F[Len(rows)]

\* sorted(seq, key): stable; with reverse=True equal keys keep their order
StableSort(seq, keys, reverse) ==
    LET n == Len(seq)
        before(j, i) == IF reverse THEN keys[j] > keys[i] ELSE keys[j] < keys[i]
        rank == [i \in 1..n |->
                    Cardinality({ j \in 1..n : before(j, i) }) +
                    Cardinality({ j \in 1..(i - 1) : keys[j] = keys[i] }) + 1]
    IN  [r \in 1..n |-> seq[CHOOSE i \in 1..n : rank[i] = r]]

SortByCost(seq, reverse) ==
    StableSort(seq, [i \in 1..Len(seq) |-> seq[i].total_cost], reverse)

SortByUnit(seq) ==
    StableSort(seq, [i \in 1..Len(seq) |-> seq[i].cost_per_unit], FALSE)

StrategyOrder(s, pool) ==
    CASE s = 1 -> SortByCost(pool, FALSE)
      [] s = 2 -> SortByUnit(pool)
      [] s = 3 -> SortByCost(pool, TRUE)

\* budget * 1.02 for cost_descending, budget otherwise (both sides x 100)
WithinLimit(s, cost, b) ==
    IF s = 3 THEN cost * 100 <= b * 102 ELSE cost <= b

Put(used, k, q) ==
    [x \in DOMAIN used \cup {k} |-> IF x = k THEN q ELSE used[x]]

\* index of the first line of h with the key k, 0 when there is none
FirstIndex(h, k) ==
    IF \E i \in 1..Len(h) : LineKey(h[i]) = k
    THEN CHOOSE i \in 1..Len(h) :
            /\ LineKey(h[i]) = k
            /\ \A j \in 1..(i - 1) : LineKey(h[j]) # k
    ELSE 0

\* mutant: the old line of a replaced key stays in the list
PopNone(h, i) == h

Pop(h, i) == SubSeq(h, 1, i - 1) \o SubSeq(h, i + 1, Len(h))

\* ---- create_hamper ----
FillStart ==
    /\ pc = "start"
    /\ df_filtered = <<>>
    /\ items_pool = <<>>
    /\ strategy = 0
    /\ sorted_items = <<>>
    /\ pos = 0
    /\ temp_hamper = <<>>
    /\ temp_total = 0
    /\ temp_used = <<>>
    /\ best_hamper = <<>>
    /\ best_total = 0
    /\ used_items = <<>>
    /\ hamper = <<>>
    /\ total_cost = 0
    /\ iteration = 0
    /\ improved = FALSE
    /\ small_items = <<>>
    /\ results = <<>>

SessionEmpty ==
    /\ session_hamper = <<>>
    /\ replacements = <<>>

SuggestIdle ==
    /\ s_pc = "idle"
    /\ s_idx = 0
    /\ s_category = ""
    /\ s_current = ""
    /\ s_rest = {}
    /\ s_sorted = <<>>
    /\ suggestions = <<>>

Init ==
    /\ data \in Inventories
    /\ budget \in Budgets
    /\ args \in FilterArgs
    /\ FillStart
    /\ SessionEmpty
    /\ SuggestIdle

\* filter, early return on an empty frame, candidate pool, first ordering
Prepare ==
    /\ pc = "start"
    /\ LET df == SelectRows(data, args)
           pool == BuildPool(drop_duplicates(df))
       IN  /\ df_filtered' = df
           /\ IF df = <<>>
              THEN /\ pc' = "done"
                   /\ UNCHANGED <<items_pool, strategy, sorted_items, pos>>
              ELSE /\ pc' = "strategy"
                   /\ items_pool' = pool
                   /\ strategy' = 1
                   /\ sorted_items' = StrategyOrder(1, pool)
                   /\ pos' = 1
    /\ UNCHANGED <<envVars, uiVars, temp_hamper, temp_total, temp_used,
                   best_hamper, best_total, used_items, hamper, total_cost,
                   iteration, improved, small_items, results>>

Skipped(used, item) ==
    Key(item) \in DOMAIN used /\ used[Key(item)] >= item.qty

\* mutant: the running total is left out of the potential cost
potential_costEntry(total, item) == item.total_cost

potential_cost(total, item) == total + item.total_cost

\* mutant: the cost of one unit is taken out instead of the cost of the line
old_costUnit(item, old_qty) == item.mrp

old_cost(item, old_qty) == item.mrp * old_qty

Accepts(s, used, total, item, b) ==
    /\ ~Skipped(used, item)
    /\ WithinLimit(s, potential_cost(total, item), b)

\* one entry of the ordering of the current strategy
StrategyStep ==
    /\ pc = "strategy"
    /\ pos <= Len(sorted_items)
    /\ LET item == sorted_items[pos]
           k == Key(item)
       IN  IF Accepts(strategy, temp_used, temp_total, item, budget)
           THEN LET i == IF k \in DOMAIN temp_used
                         THEN FirstIndex(temp_hamper, k) ELSE 0
                    removed == IF i = 0 THEN 0 ELSE old_cost(item, temp_hamper[i][3])
                    kept == IF i = 0 THEN temp_hamper ELSE Pop(temp_hamper, i)
                IN  /\ temp_hamper' = Append(kept, <<item.category, item.name, item.qty>>)
                    /\ temp_total' = (temp_total - removed) + item.total_cost
                    /\ temp_used' = Put(temp_used, k, item.qty)
           ELSE UNCHANGED <<temp_hamper, temp_total, temp_used>>
    /\ pos' = pos + 1
    /\ UNCHANGED <<envVars, uiVars, pc, df_filtered, items_pool, strategy,
                   sorted_items, best_hamper, best_total, used_items, hamper,
                   total_cost, iteration, improved, small_items, results>>

\* mutant: the feasibility test of the best-of-three selection is lost
KeepsBestAny(t, best, b) == t > best

\* mutant: a result equal to the best so far replaces it
KeepsBestLatest(t, best, b) == t >= best /\ t <= b

KeepsBest(t, best, b) == t > best /\ t <= b

\* end of one ordering: keep the best result, start the next ordering or
\* hand the best result to the refinement loop
StrategyEnd ==
    /\ pc = "strategy"
    /\ pos > Len(sorted_items)
    /\ LET keep == KeepsBest(temp_total, best_total, budget)
           bh == IF keep THEN temp_hamper ELSE best_hamper
           bt == IF keep THEN temp_total ELSE best_total
       IN  /\ best_hamper' = bh
           /\ best_total' = bt
           /\ results' = Append(results, [h |-> temp_hamper, t |-> temp_total,
                                          u |-> temp_used])
           /\ used_items' = IF keep THEN temp_used ELSE used_items
           /\ IF strategy < 3
              THEN /\ strategy' = strategy + 1
                   /\ sorted_items' = StrategyOrder(strategy + 1, items_pool)
                   /\ pos' = 1
                   /\ temp_hamper' = <<>>
                   /\ temp_total' = 0
                   /\ temp_used' = <<>>
                   /\ UNCHANGED <<pc, hamper, total_cost>>
              ELSE /\ pc' = "refine"
                   /\ hamper' = bh
                   /\ total_cost' = bt
                   /\ UNCHANGED <<strategy, sorted_items, pos, temp_hamper,
                                  temp_total, temp_used>>
    /\ UNCHANGED <<envVars, uiVars, df_filtered, items_pool, iteration,
                   improved, small_items>>

\* first row of df for (cat, name), 0 when there is none: item_match.iloc[0]
FirstRow(df, cat, name) ==
    IF \E i \in 1..Len(df) : df[i].category = cat /\ df[i].name = name
    THEN CHOOSE i \in 1..Len(df) :
            /\ df[i].category = cat /\ df[i].name = name
            /\ \A j \in 1..(i - 1) : ~(df[j].category = cat /\ df[j].name = name)
    ELSE 0

\* mutant: a bump is not checked against the remaining budget
FitsIncreaseAlways(cost_increase, remaining_budget) == TRUE

FitsIncrease(cost_increase, remaining_budget) == cost_increase <= remaining_budget

\* the first new_qty in range(current_qty + 1, max_available + 1) whose
\* cost increase fits the remaining budget, 0 when there is none
BumpQty(line, df, remaining_budget) ==
    LET r == FirstRow(df, line[1], line[2])
        current_qty == line[3]
        mrp == df[r].mrp
        max_available == Min(df[r].avail, MaxQty)
        fits == { q \in (current_qty + 1)..max_available :
                    FitsIncrease(mrp * (q - current_qty), remaining_budget) }
    IN  IF r = 0 \/ fits = {} THEN 0
        ELSE CHOOSE q \in fits : \A o \in fits : q <= o

\* the first line of the hamper that can be bumped, 0 when there is none
BumpIndex(h, df, remaining_budget) ==
    IF \E i \in 1..Len(h) : BumpQty(h[i], df, remaining_budget) # 0
    THEN CHOOSE i \in 1..Len(h) :
            /\ BumpQty(h[i], df, remaining_budget) # 0
            /\ \A j \in 1..(i - 1) : BumpQty(h[j], df, remaining_budget) = 0
    ELSE 0

\* mutant: a new item is not checked against the remaining budget
AffordableAlways(item, remaining_budget) == TRUE

\* mutant: the loop never takes a new item
AffordableNever(item, remaining_budget) == FALSE

Affordable(item, remaining_budget) == item.total_cost <= remaining_budget

\* entries for keys not yet used that fit the remaining budget, largest first
available_items(pool, used, remaining_budget) ==
    SortByCost(SelectSeq(pool, LAMBDA item :
                   Key(item) \notin DOMAIN used /\
                   Affordable(item, remaining_budget)), TRUE)

BelowTarget(total, b) == total * 100 < b * 99

\* mutant: the loop is not bounded by max_iterations
LoopRunsUnbounded == BelowTarget(total_cost, budget)

LoopRuns == BelowTarget(total_cost, budget) /\ iteration < max_iterations

\* one iteration of the refinement loop
RefineIter ==
    /\ pc = "refine"
    /\ LoopRuns
    /\ iteration' = iteration + 1
    /\ LET remaining_budget == budget - total_cost
           b == BumpIndex(hamper, df_filtered, remaining_budget)
           avail == available_items(items_pool, used_items, remaining_budget)
       IN  IF b # 0
           THEN LET line == hamper[b]
                    new_qty == BumpQty(line, df_filtered, remaining_budget)
                    mrp == df_filtered[FirstRow(df_filtered, line[1], line[2])].mrp
                    i == FirstIndex(hamper, LineKey(line))
                IN  /\ hamper' = [hamper EXCEPT ![i] = <<line[1], line[2], new_qty>>]
                    /\ total_cost' = total_cost + mrp * (new_qty - line[3])
                    /\ used_items' = Put(used_items, LineKey(line), new_qty)
                    /\ improved' = TRUE
                    /\ pc' = "refine"
           ELSE IF avail # <<>>
           THEN LET item == avail[1]
                IN  /\ hamper' = Append(hamper, <<item.category, item.name, item.qty>>)
                    /\ total_cost' = total_cost + item.total_cost
                    /\ used_items' = Put(used_items, Key(item), item.qty)
                    /\ improved' = TRUE
                    /\ pc' = "refine"
           ELSE /\ improved' = FALSE
                /\ pc' = "final"
                /\ UNCHANGED <<hamper, total_cost, used_items>>
    /\ UNCHANGED <<envVars, uiVars, df_filtered, items_pool, strategy,
                   sorted_items, pos, temp_hamper, temp_total, temp_used,
                   best_hamper, best_total, small_items, results>>

\* the while condition fails: target reached or iterations used up
RefineExit ==
    /\ pc = "refine"
    /\ ~LoopRuns
    /\ pc' = "final"
    /\ UNCHANGED <<envVars, uiVars, df_filtered, items_pool, strategy,
                   sorted_items, pos, temp_hamper, temp_total, temp_used,
                   best_hamper, best_total, used_items, hamper, total_cost,
                   iteration, improved, small_items, results>>

\* whether the final-fill pass lists a pool entry
IsSmallItem(item, used, final_budget) ==
    /\ item.total_cost <= final_budget
    /\ \/ Key(item) \notin DOMAIN used
       \/ /\ Key(item) \in DOMAIN used
          /\ used[Key(item)] < item.qty
          /\ item.mrp * (item.qty - used[Key(item)]) <= final_budget

SmallItems(pool, used, final_budget) ==
    IF final_budget > 0
    THEN SortByCost(SelectSeq(pool, LAMBDA item :
                        IsSmallItem(item, used, final_budget)), TRUE)
    ELSE <<>>

\* the candidate list of the final-fill pass
FinalPrepare ==
    /\ pc = "final"
    /\ small_items' = SmallItems(items_pool, used_items, budget - total_cost)
    /\ pos' = 1
    /\ pc' = "fill"
    /\ UNCHANGED <<envVars, uiVars, df_filtered, items_pool, strategy,
                   sorted_items, temp_hamper, temp_total, temp_used,
                   best_hamper, best_total, used_items, hamper, total_cost,
                   iteration, improved, results>>

FitsBudget(cost, b) == cost <= b

\* one entry of the final-fill pass
FinalStep ==
    /\ pc = "fill"
    /\ pos <= Len(small_items)
    /\ LET item == small_items[pos]
           k == Key(item)
       IN  IF k \notin DOMAIN used_items
           THEN IF FitsBudget(total_cost + item.total_cost, budget)
                THEN /\ hamper' = Append(hamper, <<item.category, item.name, item.qty>>)
                     /\ total_cost' = total_cost + item.total_cost
                     /\ used_items' = Put(used_items, k, item.qty)
                ELSE UNCHANGED <<hamper, total_cost, used_items>>
           ELSE LET current_qty == used_items[k]
                    cost_increase == item.mrp * (item.qty - current_qty)
                    i == FirstIndex(hamper, k)
                IN  IF /\ current_qty < item.qty
                       /\ FitsBudget(total_cost + cost_increase, budget)
                       /\ i # 0
                    THEN /\ hamper' = [hamper EXCEPT ![i] =
                                          <<item.category, item.name, item.qty>>]
                         /\ total_cost' = total_cost + cost_increase
                         /\ used_items' = Put(used_items, k, item.qty)
                    ELSE UNCHANGED <<hamper, total_cost, used_items>>
    /\ pos' = pos + 1
    /\ UNCHANGED <<envVars, uiVars, pc, df_filtered, items_pool, strategy,
                   sorted_items, temp_hamper, temp_total, temp_used,
                   best_hamper, best_total, iteration, improved, small_items, results>>

\* return hamper, total_cost
Return ==
    /\ pc = "fill"
    /\ pos > Len(small_items)
    /\ pc' = "done"
    /\ UNCHANGED <<envVars, uiVars, df_filtered, items_pool, strategy,
                   sorted_items, pos, temp_hamper, temp_total, temp_used,
                   best_hamper, best_total, used_items, hamper, total_cost,
                   iteration, improved, small_items, results>>

FillNext ==
    \/ Prepare
    \/ StrategyStep
    \/ StrategyEnd
    \/ RefineIter
    \/ RefineExit
    \/ FinalPrepare
    \/ FinalStep
    \/ Return


\* ---- get_replacement_suggestions ----
SuggestRow(r, category, current_item, a) ==
    /\ r.category = category
    /\ r.name # current_item
    /\ r.holding \in a.selected_inventory
    /\ r.status \in a.selected_status
    /\ r.brand \in a.selected_brands
    /\ is_within_expiry(r.days, a.min_days, a.max_days)

\* strftime("%d-%b-%Y") of the date that lies d days from today
FormatDate(d) == <<"%d-%b-%Y", d>>

Suggestion(r) ==
    [name |-> r.name, mrp |-> r.mrp, available |-> r.avail,
     expiry |-> FormatDate(r.days), brand |-> r.brand]

\* mutant: head(7) is lost
HeadAll(seq) == seq

Head7(seq) == SubSeq(seq, 1, Min(Len(seq), MaxSuggestions))

\* the boolean mask: the rows of data that remain
SuggestFilter ==
    /\ s_pc = "call"
    /\ s_rest' = { i \in 1..Len(data) :
                     SuggestRow(data[i], s_category, s_current, args) }
    /\ s_sorted' = <<>>
    /\ s_pc' = "sort"
    /\ UNCHANGED <<envVars, fillVars, sessionVars, s_idx, s_category,
                   s_current, suggestions>>

ComesFirst(i, rest) == \A j \in rest : data[i].mrp <= data[j].mrp

\* sort_values('MRP') is not a stable sort: rows of equal MRP come in any order
SuggestSortStep ==
    /\ s_pc = "sort"
    /\ \E i \in s_rest :
         /\ ComesFirst(i, s_rest)
         /\ s_sorted' = Append(s_sorted, i)
         /\ s_rest' = s_rest \ {i}
    /\ UNCHANGED <<envVars, fillVars, sessionVars, s_pc, s_idx, s_category,
                   s_current, suggestions>>

\* head(7) and the list of suggestion records
SuggestReturn ==
    /\ s_pc = "sort"
    /\ s_rest = {}
    /\ suggestions' = [k \in 1..Len(Head7(s_sorted)) |->
                          Suggestion(data[Head7(s_sorted)[k]])]
    /\ s_pc' = "returned"
    /\ UNCHANGED <<envVars, fillVars, sessionVars, s_idx, s_category,
                   s_current, s_rest, s_sorted>>

SuggestNext == SuggestFilter \/ SuggestSortStep \/ SuggestReturn

\* ---- the dashboard: sidebar button and main display section ----
\* "Create Hamper": the result of create_hamper goes to the session state
StoreHamper ==
    /\ pc = "done"
    /\ pc' = "shown"
    /\ session_hamper' = hamper
    /\ replacements' = <<>>
    /\ UNCHANGED <<envVars, df_filtered, items_pool, strategy, sorted_items,
                   pos, temp_hamper, temp_total, temp_used, best_hamper,
                   best_total, used_items, hamper, total_cost, iteration,
                   improved, small_items, suggestVars, results>>

\* "Create Hamper" pressed again, with the budget of the sidebar
ClickCreate ==
    /\ pc = "shown"
    /\ s_pc = "idle"
    /\ budget' \in UIBudgets
    /\ pc' = "start"
    /\ df_filtered' = <<>>
    /\ items_pool' = <<>>
    /\ strategy' = 0
    /\ sorted_items' = <<>>
    /\ pos' = 0
    /\ temp_hamper' = <<>>
    /\ temp_total' = 0
    /\ temp_used' = <<>>
    /\ best_hamper' = <<>>
    /\ best_total' = 0
    /\ used_items' = <<>>
    /\ hamper' = <<>>
    /\ total_cost' = 0
    /\ iteration' = 0
    /\ improved' = FALSE
    /\ small_items' = <<>>
    /\ results' = <<>>
    /\ UNCHANGED <<data, args, uiVars>>

\* the row the display section resolves a line to, 0 when there is none
Lookup(cat, name) ==
    LET byName == { i \in 1..Len(data) : data[i].name = name }
        byCat == IF byName # {} /\ cat # "Misc"
                 THEN { i \in byName : data[i].category = cat } ELSE byName
        found == IF byCat = {} THEN byName ELSE byCat
    IN  IF found = {} THEN 0 ELSE CHOOSE i \in found : \A j \in found : i <= j

Max(a, b) == IF a >= b THEN a ELSE b

Available(line) ==
    IF Lookup(line[1], line[2]) = 0 THEN 1 ELSE data[Lookup(line[1], line[2])].avail

Without(f, idx) == [x \in DOMAIN f \ {idx} |-> f[x]]

\* "Add Item": the first row of that name gives the category; the line goes
\* to additional_items and the rerun merges it into the hamper
AddedLines(h, name, qty) ==
    LET match == { i \in 1..Len(data) : data[i].name = name }
        first == CHOOSE i \in match : \A j \in match : i <= j
    IN  Append(h, <<data[first].category, name, qty>>)

AddItem ==
    /\ pc = "shown"
    /\ s_pc = "idle"
    /\ session_hamper # <<>>
    /\ Len(session_hamper) < MaxLines
    /\ \E r \in 1..Len(data) :
         \E qty \in 1..Min(data[r].avail, 10) :
            /\ \A j \in 1..(r - 1) : data[j].name # data[r].name
            /\ session_hamper' = AddedLines(session_hamper, data[r].name, qty)
    /\ UNCHANGED <<envVars, fillVars, replacements, suggestVars>>

\* the quantity box of a line
EditQty ==
    /\ pc = "shown"
    /\ s_pc = "idle"
    /\ Len(session_hamper) <= MaxLines
    /\ \E idx \in 1..Len(session_hamper) :
         \E q \in 1..Max(Available(session_hamper[idx]), 1) :
            session_hamper' = [session_hamper EXCEPT ![idx][3] = q]
    /\ UNCHANGED <<envVars, fillVars, replacements, suggestVars>>

\* the bin button of a line
DeleteLine ==
    /\ pc = "shown"
    /\ s_pc = "idle"
    /\ Len(session_hamper) <= MaxLines
    /\ \E idx \in 1..Len(session_hamper) :
         /\ session_hamper' = Pop(session_hamper, idx)
         /\ replacements' = Without(replacements, idx)
    /\ UNCHANGED <<envVars, fillVars, suggestVars>>

\* "Replace" on a line
ClickReplace ==
    /\ pc = "shown"
    /\ s_pc = "idle"
    /\ Len(session_hamper) <= MaxLines
    /\ \E idx \in 1..Len(session_hamper) :
         replacements' = Put(replacements, idx, LineKey(session_hamper[idx]))
    /\ UNCHANGED <<envVars, fillVars, session_hamper, suggestVars>>

\* the display section asks for the suggestions of a line marked for replacement
ShowSuggestions ==
    /\ pc = "shown"
    /\ s_pc = "idle"
    /\ Len(session_hamper) <= MaxLines
    /\ \E idx \in DOMAIN replacements \cap 1..Len(session_hamper) :
         /\ s_idx' = idx
         /\ s_category' = session_hamper[idx][1]
         /\ s_current' = session_hamper[idx][2]
    /\ s_pc' = "call"
    /\ UNCHANGED <<envVars, fillVars, sessionVars, s_rest, s_sorted, suggestions>>

Replaced(h, idx, suggestion) == [h EXCEPT ![idx] = <<h[idx][1], suggestion.name, 1>>]

\* "Replace with this" under a suggestion
ReplaceWith ==
    /\ pc = "shown"
    /\ s_pc = "returned"
    /\ \E i \in 1..Len(suggestions) :
         session_hamper' = Replaced(session_hamper, s_idx, suggestions[i])
    /\ replacements' = Without(replacements, s_idx)
    /\ s_pc' = "idle"
    /\ s_idx' = 0
    /\ s_category' = ""
    /\ s_current' = ""
    /\ s_sorted' = <<>>
    /\ suggestions' = <<>>
    /\ UNCHANGED <<envVars, fillVars, s_rest>>

\* "Cancel Replacement"
CancelReplacement ==
    /\ pc = "shown"
    /\ s_pc = "returned"
    /\ replacements' = Without(replacements, s_idx)
    /\ s_pc' = "idle"
    /\ s_idx' = 0
    /\ s_category' = ""
    /\ s_current' = ""
    /\ s_sorted' = <<>>
    /\ suggestions' = <<>>
    /\ UNCHANGED <<envVars, fillVars, session_hamper, s_rest>>

UINext ==
    \/ StoreHamper
    \/ ClickCreate
    \/ AddItem
    \/ EditQty
    \/ DeleteLine
    \/ ClickReplace
    \/ ShowSuggestions
    \/ ReplaceWith
    \/ CancelReplacement

\* ---- specifications ----
\* one call of create_hamper
Next == FillNext

Spec == Init /\ [][Next]_vars

\* one call of get_replacement_suggestions
InitSuggest ==
    /\ data \in Shelves
    /\ budget \in UIBudgets
    /\ args \in FilterArgs
    /\ FillStart
    /\ SessionEmpty
    /\ s_pc = "call"
    /\ s_idx = 0
    /\ s_category \in {"c1", "c2"}
    /\ s_current \in {"n1", "n4", "zz"}
    /\ s_rest = {}
    /\ s_sorted = <<>>
    /\ suggestions = <<>>

NextSuggest == SuggestNext

SpecSuggest == InitSuggest /\ [][NextSuggest]_vars

\* a session of the dashboard
InitUI ==
    /\ data \in UIInventories
    /\ budget \in UIBudgets
    /\ args \in FilterArgs
    /\ FillStart
    /\ SessionEmpty
    /\ SuggestIdle

NextUI == FillNext \/ UINext \/ SuggestNext

SpecUI == InitUI /\ [][NextUI]_vars

\* ---- properties of create_hamper (Spec) ----
Done == pc = "done"

Lines == 1..Len(hamper)

\* the row of the filtered frame a line is priced and capped by
RowOf(line) ==
    CHOOSE i \in 1..Len(df_filtered) :
        /\ df_filtered[i].category = line[1]
        /\ df_filtered[i].name = line[2]
        /\ \A j \in 1..(i - 1) :
              df_filtered[j].category # line[1] \/ df_filtered[j].name # line[2]

Known(line) ==
    \E i \in 1..Len(df_filtered) :
        df_filtered[i].category = line[1] /\ df_filtered[i].name = line[2]

RECURSIVE SumLines(_)
SumLines(h) ==
    IF h = <<>> THEN 0
    ELSE df_filtered[RowOf(Head(h))].mrp * Head(h)[3] + SumLines(Tail(h))

\* C1: the total cost create_hamper returns never exceeds the budget; a
\* cost-descending result above the budget (up to 1.02 x budget) is never
\* the one that is returned.
T1_TotalWithinBudget == Done => total_cost <= budget

\* the cost-descending pass ended above the budget, and the refinement loop
\* worked on the result that was kept instead
W1_DescendingOverBudget ==
    /\ Done
    /\ temp_total > budget
    /\ temp_total * 100 <= budget * 102
    /\ hamper # <<>>
    /\ iteration > 1
    /\ total_cost <= budget

\* C2: the returned hamper has at most one line per (category, name).
T2_UniqueKeys ==
    Done => \A i, j \in Lines :
               (hamper[i][1] = hamper[j][1] /\ hamper[i][2] = hamper[j][2]) => i = j

\* several lines, one of them bumped by the loop after a strategy replaced
\* its smaller quantities
W2_SeveralLines ==
    /\ Done
    /\ Len(hamper) >= 2
    /\ iteration > 1
    /\ \E i \in Lines : hamper[i][3] >= 3

\* C3: every returned line has a quantity between 1 and
\* min(available units, 20) of its item.
T3_QuantityInRange ==
    Done => \A i \in Lines :
               /\ Known(hamper[i])
               /\ 1 <= hamper[i][3]
               /\ hamper[i][3] <= df_filtered[RowOf(hamper[i])].avail
               /\ hamper[i][3] <= 20

\* a line at 20 units of an item with more than 20 units available
W3_CapBinds ==
    /\ Done
    /\ \E i \in Lines :
         /\ hamper[i][3] = 20
         /\ df_filtered[RowOf(hamper[i])].avail > 20

\* C4: the returned total is the sum of unit price x quantity over the
\* returned lines.
T4_TotalIsSum ==
    Done => (\A i \in Lines : Known(hamper[i])) /\ total_cost = SumLines(hamper)

\* a paid hamper that a strategy built by replacements and the loop bumped
W4_PaidAndBumped ==
    /\ Done
    /\ total_cost > 0
    /\ Len(hamper) >= 2
    /\ iteration > 1
    /\ \E i \in Lines : hamper[i][3] >= 2 /\ df_filtered[RowOf(hamper[i])].mrp > 0

PoolAboveBudget ==
    /\ items_pool # <<>>
    /\ \A i \in 1..Len(items_pool) : items_pool[i].mrp > budget

\* C5: when every unit price of the pool is above the budget, the result is
\* the empty hamper with total 0, also when cost-descending accepted an entry.
T5_BelowCheapest ==
    (Done /\ PoolAboveBudget) => (hamper = <<>> /\ total_cost = 0)

\* the cost-descending pass accepted an entry between B and 1.02 B
W5_DescendingAccepted ==
    /\ Done
    /\ PoolAboveBudget
    /\ temp_hamper # <<>>
    /\ temp_total > budget

OneItemScenario ==
    /\ Len(data) = 1
    /\ data[1].mrp = 100
    /\ data[1].avail = 5
    /\ df_filtered = data
    /\ budget = 250

\* C6: one item of price 100 with 5 units and budget 250 give one line of
\* quantity 2 and total 200.
T6_Scenario ==
    (Done /\ OneItemScenario) =>
        /\ hamper = << <<data[1].category, data[1].name, 2>> >>
        /\ total_cost = 200

W6_ScenarioDone == Done /\ OneItemScenario /\ Len(hamper) = 1

\* ---- properties of get_replacement_suggestions (SpecSuggest) ----
Returned == s_pc = "returned"

FromRow(sg, r) ==
    /\ sg.name = r.name
    /\ sg.mrp = r.mrp
    /\ sg.available = r.avail
    /\ sg.brand = r.brand

\* C7: the suggestions never contain the excluded item, are at most 7, come
\* from rows of the requested category that pass the active filters, and
\* are in ascending order of price.
T7_Suggestions ==
    Returned =>
        /\ Len(suggestions) <= 7
        /\ \A i \in 1..Len(suggestions) :
              /\ suggestions[i].name # s_current
              /\ \E k \in 1..Len(data) :
                    /\ FromRow(suggestions[i], data[k])
                    /\ data[k].category = s_category
                    /\ data[k].holding \in args.selected_inventory
                    /\ data[k].status \in args.selected_status
                    /\ data[k].brand \in args.selected_brands
                    /\ args.min_days <= data[k].days
                    /\ data[k].days <= args.max_days
        /\ \A i, j \in 1..Len(suggestions) :
              i < j => suggestions[i].mrp <= suggestions[j].mrp

\* more than 7 rows qualified, the excluded item is a row of the category
W7_MoreThanSeven ==
    /\ Returned
    /\ Len(s_sorted) > 7
    /\ Len(suggestions) = 7
    /\ \E k \in 1..Len(data) :
          data[k].name = s_current /\ data[k].category = s_category

\* ---- properties of the dashboard session (SpecUI) ----
\* C8: the session's hamper has at most one line per (category, name)
\* after any sequence of selections.
T8_SessionUniqueKeys ==
    \A i, j \in 1..Len(session_hamper) :
        (session_hamper[i][1] = session_hamper[j][1] /\
         session_hamper[i][2] = session_hamper[j][2]) => i = j

\* ---- properties of the strategy passes (Spec) ----
AtEntry == pc = "strategy" /\ pos <= Len(sorted_items)

Entry == sorted_items[pos]

Chosen == { i \in 1..Len(temp_hamper) :
              temp_hamper[i][1] = Entry.category /\ temp_hamper[i][2] = Entry.name }

RECURSIVE SumCost(_)
SumCost(S) ==
    IF S = {} THEN 0
    ELSE LET i == CHOOSE x \in S : TRUE
         IN  Entry.mrp * temp_hamper[i][3] + SumCost(S \ {i})

Ceiling100 == IF strategy = 3 THEN budget * 102 ELSE budget * 100

EntryAccepted ==
    /\ Len(temp_hamper') >= 1
    /\ temp_hamper'[Len(temp_hamper')] = <<Entry.category, Entry.name, Entry.qty>>
    /\ temp_hamper' # temp_hamper

HypotheticalFits ==
    ((temp_total - SumCost(Chosen)) + Entry.total_cost) * 100 <= Ceiling100

\* C9 as stated: an entry is accepted exactly when the total with the
\* same-key line taken out and the entry put in is within the ceiling.
C9_AsStated == [][AtEntry => (EntryAccepted <=> HypotheticalFits)]_vars

\* C9 amended: an entry is accepted exactly when no line of its key with
\* the same or a larger quantity is chosen and the running total plus the
\* entry's line cost (the same-key line not taken out) is within the
\* ceiling; an accepted entry replaces the same-key line and the running
\* total becomes the total without that line plus the entry's line cost.
T9_Acceptance ==
    [][AtEntry =>
         /\ EntryAccepted <=>
               /\ \A i \in Chosen : temp_hamper[i][3] < Entry.qty
               /\ (temp_total + Entry.total_cost) * 100 <= Ceiling100
         /\ EntryAccepted =>
               /\ temp_total' = (temp_total - SumCost(Chosen)) + Entry.total_cost
               /\ Len(temp_hamper') = Len(temp_hamper) - Cardinality(Chosen) + 1
               /\ \A i \in 1..(Len(temp_hamper') - 1) :
                     temp_hamper'[i][1] # Entry.category \/
                     temp_hamper'[i][2] # Entry.name
         /\ ~EntryAccepted => (temp_hamper' = temp_hamper /\ temp_total' = temp_total)
      ]_vars

\* an entry has just replaced the same-key line of a smaller quantity
W9_Replaced ==
    /\ pc = "strategy"
    /\ pos > 1
    /\ Len(temp_hamper) >= 2
    /\ LET e == sorted_items[pos - 1]
       IN  /\ temp_hamper[Len(temp_hamper)] = <<e.category, e.name, e.qty>>
           /\ e.qty >= 2
           /\ temp_total > e.total_cost

\* ---- properties of the final-fill pass (Spec) ----
ListBuilt == pc = "fill" /\ pos = 1 /\ budget - total_cost > 0

Listed(e) == \E k \in 1..Len(small_items) : small_items[k] = e

\* C10: the candidate list holds every entry of a new key with line cost
\* <= R and every entry of a key of the hamper with a larger quantity whose
\* incremental cost is <= R.
T10_CandidateList ==
    ListBuilt =>
        \A i \in 1..Len(items_pool) :
            LET e == items_pool[i]
                k == <<e.category, e.name>>
                R == budget - total_cost
            IN  ( \/ (k \notin DOMAIN used_items /\ e.total_cost <= R)
                  \/ /\ k \in DOMAIN used_items
                     /\ e.qty > used_items[k]
                     /\ e.mrp * (e.qty - used_items[k]) <= R )
                => Listed(e)
\* ---- properties of the best-of-three selection (Spec) ----
\* the three strategies have run and the loop has not started
Handoff == pc = "refine" /\ iteration = 0

\* the earliest strategy of S with the largest total
Winner(S) ==
    CHOOSE w \in S :
        \A o \in S :
            results[o].t < results[w].t \/ (results[o].t = results[w].t /\ w <= o)

WithinBudget == { s \in 1..3 : results[s].t <= budget }

Paid == { s \in WithinBudget : results[s].t > 0 }

\* C11 as stated: the loop receives the result of the earliest strategy with
\* the largest total among the results <= B (the empty hamper when no
\* strategy gives a non-empty result <= B).
C11_AsStated ==
    Handoff =>
        IF \A s \in WithinBudget : results[s].h = <<>>
        THEN hamper = <<>> /\ total_cost = 0
        ELSE /\ hamper = results[Winner(WithinBudget)].h
             /\ total_cost = results[Winner(WithinBudget)].t

\* C11 amended: the loop receives the result of the earliest strategy with
\* the largest total among the results with 0 < total <= B; a result above
\* B is never received; when no strategy has such a total (also when its
\* lines are all free) the loop receives the empty hamper with total 0.
T11_BestOfThree ==
    Handoff =>
        /\ Len(results) = 3
        /\ IF Paid = {}
           THEN hamper = <<>> /\ total_cost = 0 /\ used_items = <<>>
           ELSE /\ hamper = results[Winner(Paid)].h
                /\ total_cost = results[Winner(Paid)].t
                /\ used_items = results[Winner(Paid)].u

\* two strategies tie on the largest total with different lines, a third is
\* above the budget
W11_TieAndDiscard ==
    /\ Handoff
    /\ \E a, b \in Paid :
          /\ a < b
          /\ results[a].t = results[b].t
          /\ results[a].h # results[b].h
          /\ results[a].t = total_cost
    /\ \E c \in 1..3 : results[c].t > budget
\* ---- properties of the refinement loop (Spec) ----
\* exactly one line of the hamper has its quantity raised, nothing else moves
OneLineRaised ==
    /\ Len(hamper') = Len(hamper)
    /\ \E i \in 1..Len(hamper) :
          /\ hamper'[i][1] = hamper[i][1]
          /\ hamper'[i][2] = hamper[i][2]
          /\ hamper'[i][3] > hamper[i][3]
          /\ \A j \in 1..Len(hamper) : j # i => hamper'[j] = hamper[j]

\* exactly one line of a new key is appended, the old lines stay
OneLineAppended ==
    /\ Len(hamper') = Len(hamper) + 1
    /\ SubSeq(hamper', 1, Len(hamper)) = hamper
    /\ \A j \in 1..Len(hamper) : LineKey(hamper[j]) # LineKey(hamper'[Len(hamper')])
    /\ \A j \in 1..Len(hamper) :
          BumpQty(hamper[j], df_filtered, budget - total_cost) = 0

IterationShape ==
    pc = "refine" =>
        IF BelowTarget(total_cost, budget) /\ iteration < max_iterations
        THEN /\ iteration' = iteration + 1
             /\ \/ OneLineRaised /\ pc' = "refine"
                \/ OneLineAppended /\ pc' = "refine"
                \/ hamper' = hamper /\ total_cost' = total_cost /\ pc' = "final"
        ELSE /\ iteration' = iteration
             /\ hamper' = hamper
             /\ pc' = "final"

\* C12: the loop runs at most 100 iterations; an iteration raises the
\* quantity of exactly one line, or (no line being raisable) appends exactly
\* one line of a new key, or changes nothing and ends the loop; every
\* iteration counts, so the loop ends.
T12_LoopBoundedOneChange ==
    /\ [](iteration <= max_iterations)
    /\ [](pc \in {"final", "fill", "done"} =>
             iteration = max_iterations \/ ~BelowTarget(total_cost, budget) \/ ~improved)
    /\ [][IterationShape]_vars

\* the loop was stopped by its 100th iteration, after appending and raising
W12_StoppedByCount ==
    /\ pc = "final"
    /\ iteration = max_iterations
    /\ improved
    /\ BelowTarget(total_cost, budget)
    /\ Len(hamper) > 1
    /\ \E i \in 1..Len(hamper) : hamper[i][3] > 1
\* ---- properties of the final-fill pass after the loop (Spec) ----
\* the loop ran and its last iteration found nothing to raise or append
NoImprovementExit == iteration >= 1 /\ ~improved

FinalPass == pc \in {"final", "fill"}

FinalPassChanges == hamper' # hamper \/ total_cost' # total_cost

FrameAfterNoImprovement ==
    (FinalPass /\ NoImprovementExit) =>
        /\ hamper' = hamper
        /\ total_cost' = total_cost
        /\ used_items' = used_items

ChangesOnlyAfterOtherExits ==
    (FinalPass /\ FinalPassChanges) =>
        \/ iteration = 0
        \/ ~BelowTarget(total_cost, budget)
        \/ iteration = max_iterations

\* C13: after an exit of the loop by an iteration without improvement the
\* final-fill pass lists nothing and leaves the hamper and the total as they
\* are; a step of the pass that changes them follows a loop that was skipped,
\* reached 0.99 * B or used its 100 iterations.
T13_FinalFillFrame ==
    /\ []((pc = "fill" /\ NoImprovementExit) => small_items = <<>>)
    /\ [][FrameAfterNoImprovement]_vars
    /\ [][ChangesOnlyAfterOtherExits]_vars

\* the pass has run after a no-improvement exit with money left and lines
\* in the hamper
W13_PassedUntouched ==
    /\ pc = "done"
    /\ NoImprovementExit
    /\ iteration < max_iterations
    /\ BelowTarget(total_cost, budget)
    /\ budget - total_cost > 0
    /\ Len(hamper) > 1
====
